---- MODULE Spec2Model ----
(***************************************************************************)
(* A model of the rust_scl crate (src/src/lib.rs): reading and writing     *)
(* Scala scale files.  Text is a sequence of one-character strings.        *)
(*                                                                         *)
(* An f64 is modelled by the decimal it denotes, mant / 10^exp, kept       *)
(* normalised (no trailing zero in the fraction).  For the short decimals  *)
(* enumerated here two decimals are the same f64 exactly when their        *)
(* normalised forms agree, and the shortest round-trip rendering of an     *)
(* f64 is its normalised decimal.  NaN, the infinities, exponent notation  *)
(* and the sign of zero are outside the alphabet of the enumerated inputs. *)
(* usize is 64 bits wide; unsigned integers that may exceed TLC's range    *)
(* are kept as decimal digit strings and compared as such.                 *)
(***************************************************************************)
EXTENDS Integers, Sequences, FiniteSets, TLC

(***************************************************************************)
(* Bounds of the enumerated inputs.                                        *)
(***************************************************************************)
MaxTokLen == 5
MaxNumer == 4
MaxMant == 12
MaxExp == 1
MaxLines == 4
MaxNotes == 2

(***************************************************************************)
(* Characters and text helpers.                                            *)
(***************************************************************************)
LF == "\n"
CR == "\r"
SP == " "
DigitChars == <<"0", "1", "2", "3", "4", "5", "6", "7", "8", "9">>

IsDigit(c) == \E i \in DOMAIN DigitChars : DigitChars[i] = c

DigitVal(c) == (CHOOSE i \in DOMAIN DigitChars : DigitChars[i] = c) - 1

\* char::is_whitespace, restricted to the characters of the model
IsWhitespace(c) == c \in {SP, CR, LF, "\t"}

\* str::contains(c)
Contains(s, c) == \E i \in DOMAIN s : s[i] = c

\* str::starts_with(c)
StartsWith(s, c) == Len(s) > 0 /\ s[1] = c

AllDigits(s) == \A i \in DOMAIN s : IsDigit(s[i])

\* index of the first occurrence of c in s, or Len(s) + 1
IndexOf(s, c) ==
  IF Contains(s, c) THEN CHOOSE i \in DOMAIN s : s[i] = c /\ \A j \in 1..(i - 1) : s[j] # c
  ELSE Len(s) + 1

RECURSIVE Pow10(_)
Pow10(e) == IF e = 0 THEN 1 ELSE 10 * Pow10(e - 1)

RECURSIVE Gcd(_, _)
Gcd(a, b) == IF b = 0 THEN a ELSE Gcd(b, a % b)

(***************************************************************************)
(* Decimal integers: core::fmt::Display for unsigned integers and the      *)
(* digit loop of core::num from_str_radix.                                 *)
(***************************************************************************)
RECURSIVE NatToDigits(_)
NatToDigits(n) ==
  IF n < 10 THEN <<DigitChars[n + 1]>>
  ELSE Append(NatToDigits(n \div 10), DigitChars[(n % 10) + 1])

RECURSIVE DigitsToNat(_)
DigitsToNat(s) ==
  IF s = <<>> THEN 0
  ELSE 10 * DigitsToNat(SubSeq(s, 1, Len(s) - 1)) + DigitVal(s[Len(s)])

\* the digits without leading zeros ("0" for zero)
RECURSIVE StripZeros(_)
StripZeros(s) == IF Len(s) > 1 /\ s[1] = "0" THEN StripZeros(Tail(s)) ELSE s

\* a > b for two digit strings without leading zeros
DigitsGreater(a, b) ==
  \/ Len(a) > Len(b)
  \/ /\ Len(a) = Len(b)
     /\ \E i \in DOMAIN a :
          /\ DigitVal(a[i]) > DigitVal(b[i])
          /\ \A j \in 1..(i - 1) : a[j] = b[j]

\* u32::MAX and usize::MAX (64-bit target) as digit strings
U32Max == <<"4", "2", "9", "4", "9", "6", "7", "2", "9", "5">>
UsizeMax == <<"1", "8", "4", "4", "6", "7", "4", "4", "0", "7",
              "3", "7", "0", "9", "5", "5", "1", "6", "1", "5">>

(***************************************************************************)
(* Results: Ok(value), Err(message), or a panic that unwinds out of the    *)
(* call.                                                                   *)
(***************************************************************************)
Ok(v) == [kind |-> "Ok", value |-> v]
Err(m) == [kind |-> "Err", msg |-> m]
Panic(m) == [kind |-> "Panic", msg |-> m]
None == [kind |-> "None"]

\* <unsigned>::from_str: an optional '+', then one or more digits, the value
\* at most max; yields the digits without leading zeros
ParseUnsigned(s, max) ==
  IF s = <<>> THEN Err("empty")
  ELSE LET digits == IF s[1] = "+" THEN Tail(s) ELSE s
       IN IF digits = <<>> \/ ~AllDigits(digits) THEN Err("invalid digit")
          ELSE IF DigitsGreater(StripZeros(digits), max) THEN Err("overflow")
          ELSE Ok(StripZeros(digits))

(***************************************************************************)
(* Notes.                                                                  *)
(***************************************************************************)
RECURSIVE Normalise(_, _)
Normalise(m, e) ==
  IF e > 0 /\ m % 10 = 0 THEN Normalise(m \div 10, e - 1) ELSE <<m, e>>

\* Note::Cents(f64): the value mant / 10^exp
Cents(m, e) ==
  LET n == Normalise(IF m < 0 THEN -m ELSE m, e)
  IN [tag |-> "Cents", mant |-> IF m < 0 THEN -n[1] ELSE n[1], exp |-> n[2]]

\* Note::Ratio(Ratio::new(n, d)): Ratio::new reduces to lowest terms
RatioNew(n, d) ==
  LET g == Gcd(n, d) IN [tag |-> "Ratio", numer |-> n \div g, denom |-> d \div g]

\* f64::from_str over the model's alphabet: [+-] digits* [. digits*] with at
\* least one digit
ParseF64(s) ==
  IF s = <<>> THEN Err("empty")
  ELSE LET neg == s[1] = "-"
           body == IF s[1] \in {"+", "-"} THEN Tail(s) ELSE s
           dot == IndexOf(body, ".")
           int == SubSeq(body, 1, dot - 1)
           frac == SubSeq(body, dot + 1, Len(body))
       IN IF ~AllDigits(int) \/ ~AllDigits(frac) \/ Len(int) + Len(frac) = 0
          THEN Err("invalid")
          ELSE LET m == DigitsToNat(int \o frac)
               IN Ok(Cents(IF neg THEN -m ELSE m, Len(frac)))

\* Ratio<u32>::from_str of the num crate: numer[/denom], each a u32, a zero
\* denominator refused with an error, the ratio reduced by Ratio::new
ParseRatio(s) ==
  LET slash == IndexOf(s, "/")
      n == ParseUnsigned(SubSeq(s, 1, slash - 1), U32Max)
      d == IF slash > Len(s) THEN Ok(<<"1">>)
           ELSE ParseUnsigned(SubSeq(s, slash + 1, Len(s)), U32Max)
  IN IF n.kind # "Ok" \/ d.kind # "Ok" THEN Err("parse error")
     ELSE IF d.value = <<"0">> THEN Err("zero denominator")
     ELSE Ok(RatioNew(DigitsToNat(n.value), DigitsToNat(d.value)))

\* a plausible slip: dispatch on '/' instead of '.'
NoteFromStrBySlash(string) ==
  IF ~Contains(string, "/")
  THEN IF ParseF64(string).kind = "Ok" THEN Ok(ParseF64(string).value)
       ELSE Err("error parsing cent value")
  ELSE IF ParseRatio(string).kind = "Ok" THEN Ok(ParseRatio(string).value)
       ELSE Err("error parsing ratio value")

\* impl FromStr for Note
NoteFromStr(string) ==
  IF Contains(string, ".")
  THEN IF ParseF64(string).kind = "Ok" THEN Ok(ParseF64(string).value)
       ELSE Err("error parsing cent value")
  ELSE IF ParseRatio(string).kind = "Ok" THEN Ok(ParseRatio(string).value)
       ELSE Err("error parsing ratio value")

\* impl Display for f64: the shortest decimal that reads back as the value,
\* without exponent and without ".0" for a whole number
F64Fmt(c) ==
  LET a == IF c.mant < 0 THEN -c.mant ELSE c.mant
      ip == NatToDigits(a \div Pow10(c.exp))
      fp == NatToDigits(a % Pow10(c.exp))
      pad == [i \in 1..(c.exp - Len(fp)) |-> "0"]
  IN (IF c.mant < 0 THEN <<"-">> ELSE <<>>) \o ip
       \o (IF c.exp > 0 THEN <<".">> \o pad \o fp ELSE <<>>)

\* a plausible slip: the denominator 1 left out
NoteFmtShort(note) ==
  IF note.tag = "Cents" THEN F64Fmt(note)
  ELSE IF note.denom = 1 THEN NatToDigits(note.numer)
  ELSE NatToDigits(note.numer) \o <<"/">> \o NatToDigits(note.denom)

\* impl Display for Note
NoteFmt(note) ==
  IF note.tag = "Cents" THEN F64Fmt(note)
  ELSE NatToDigits(note.numer) \o <<"/">> \o NatToDigits(note.denom)

(***************************************************************************)
(* Scales.                                                                 *)
(***************************************************************************)
\* str::split_terminator('\n')
RECURSIVE SplitTerminator(_)
SplitTerminator(s) ==
  IF s = <<>> THEN <<>>
  ELSE LET i == IndexOf(s, LF)
       IN IF i > Len(s) THEN <<s>>
          ELSE <<SubSeq(s, 1, i - 1)>> \o SplitTerminator(SubSeq(s, i + 1, Len(s)))

\* str::lines: lines end at "\n" or "\r\n"; the terminator is not part of the
\* line.  (Whether a "\r" ending an unterminated last line is kept differs
\* between versions of the standard library; Scale::from_str gives the same
\* result either way, since a description in the last line has no count line
\* after it and every other line is trimmed.)
Lines(s) ==
  LET raw == SplitTerminator(s)
  IN [i \in DOMAIN raw |->
        IF Len(raw[i]) > 0 /\ raw[i][Len(raw[i])] = CR
        THEN SubSeq(raw[i], 1, Len(raw[i]) - 1) ELSE raw[i]]

IsComment(line) == StartsWith(line, "!")

\* a plausible slip: the comment filter dropped
LinesKeepingComments(s) == Lines(s)

\* scale_string.lines().filter(|line| !line.starts_with("!"))
LinesWithoutComments(s) == SelectSeq(Lines(s), LAMBDA line : ~IsComment(line))

RECURSIVE TrimStart(_)
TrimStart(s) == IF Len(s) > 0 /\ IsWhitespace(s[1]) THEN TrimStart(Tail(s)) ELSE s

RECURSIVE TrimEnd(_)
TrimEnd(s) ==
  IF Len(s) > 0 /\ IsWhitespace(s[Len(s)]) THEN TrimEnd(SubSeq(s, 1, Len(s) - 1)) ELSE s

\* str::trim
Trim(s) == TrimEnd(TrimStart(s))

\* a plausible slip: the whole trimmed line taken as the note
WholeLine(line) == Trim(line)

\* line.split_whitespace().next(); <<>> stands for None
FirstToken(line) ==
  LET t == TrimStart(line)
      stop == IF \E i \in DOMAIN t : IsWhitespace(t[i])
              THEN CHOOSE i \in DOMAIN t :
                     IsWhitespace(t[i]) /\ \A j \in 1..(i - 1) : ~IsWhitespace(t[j])
              ELSE Len(t) + 1
  IN SubSeq(t, 1, stop - 1)

\* the largest capacity Vec::<Note>::with_capacity accepts: isize::MAX / 16,
\* a Note being 16 bytes.  Above it the call panics ("capacity overflow");
\* below it the allocation is taken to succeed.
CapacityMax == <<"5", "7", "6", "4", "6", "0", "7", "5", "2",
                 "3", "0", "3", "4", "2", "3", "4", "8", "7">>

MkScale(d, n) == [description |-> d, notes |-> n]

\* the loop over the note lines: the first failing line ends the parse
RECURSIVE ParseNoteLines(_, _, _)
ParseNoteLines(lines, i, notes) ==
  IF i > Len(lines) THEN Ok(notes)
  ELSE LET note_string == FirstToken(lines[i])
       IN IF note_string = <<>> THEN Err("no note on line")
          ELSE LET r == NoteFromStr(note_string)
               IN IF r.kind # "Ok" THEN r
                  ELSE ParseNoteLines(lines, i + 1, Append(notes, r.value))

\* impl FromStr for Scale
ScaleFromStr(scale_string) ==
  LET lines == LinesWithoutComments(scale_string)
  IN IF Len(lines) = 0 THEN Err("couldn't read description line")
     ELSE IF Len(lines) = 1 THEN Err("couldn't read number of notes line")
     ELSE LET number == ParseUnsigned(Trim(lines[2]), UsizeMax)
          IN IF number.kind # "Ok" THEN Err("invalid number of notes")
             ELSE IF DigitsGreater(number.value, CapacityMax)
             THEN Panic("capacity overflow")
             ELSE LET notes == ParseNoteLines([i \in DOMAIN lines |-> Trim(lines[i])], 3, <<>>)
                  IN IF notes.kind # "Ok" THEN notes
                     ELSE IF NatToDigits(Len(notes.value)) = number.value
                     THEN Ok(MkScale(lines[1], notes.value))
                     ELSE Err("number of notes doesn't match actual number of notes")

RECURSIVE FmtNotes(_)
FmtNotes(notes) ==
  IF notes = <<>> THEN <<>>
  ELSE <<LF>> \o NoteFmt(Head(notes)) \o FmtNotes(Tail(notes))

\* a plausible slip: a newline written after every line, the last included
ScaleFmtTerminated(scale) ==
  scale.description \o <<LF>> \o NatToDigits(Len(scale.notes))
    \o FmtNotes(scale.notes) \o <<LF>>

\* impl Display for Scale
ScaleFmt(scale) ==
  scale.description \o <<LF>> \o NatToDigits(Len(scale.notes)) \o FmtNotes(scale.notes)

(***************************************************************************)
(* The inputs the operations are applied to.                               *)
(***************************************************************************)
TokenChars == {"0", "1", "2", ".", "/", "-", "a"}

\* every note token of at most MaxTokLen characters
Tokens == UNION {[1..n -> TokenChars] : n \in 0..MaxTokLen}

\* the Note values a caller can construct, as the tests' Arbitrary does
CentsValues == {Cents(m, e) : m \in (-MaxMant)..MaxMant, e \in 0..MaxExp}
RatioValues == {RatioNew(n, d) : n \in 0..MaxNumer, d \in 1..MaxNumer}
NoteValues == CentsValues \cup RatioValues

\* the notes of the scales written: 0.5, -0.5, 1.0 cents; 1/1, 2/1, 1/2
ScaleNoteValues ==
  {Cents(5, 1), Cents(-5, 1), Cents(1, 0)} \cup {RatioNew(1, 1), RatioNew(2, 1), RatioNew(1, 2)}

NoteLists == UNION {[1..n -> ScaleNoteValues] : n \in 0..MaxNotes}

Descriptions ==
  { <<>>, <<"x">>, <<SP, "x", SP>>, <<"x", "!">>, <<"!", "x">>, <<"0">>,
    <<"x", CR>>, <<"x", LF, "y">> }

\* the lines documents are made of
DocLines ==
  { <<"x">>, <<"0">>, <<"1">>, <<SP, "2", CR>>, <<>>, <<"5", "/", "4">>, <<".", "5">>,
    <<"a", ".">>,
    <<"9", "9", "9", "9", "9", "9", "9", "9", "9", "9",
      "9", "9", "9", "9", "9", "9", "9", "9", "9">> }

CommentLines == { <<"!">>, <<"!", "1">> }

\* leading whitespace and trailing text put around a note line
Decorations ==
  { [lead |-> <<SP, SP>>, trail |-> <<SP, "x", SP>>],
    [lead |-> <<"\t">>, trail |-> <<SP, ".", "5">>] }

(***************************************************************************)
(* State.                                                                  *)
(***************************************************************************)
VARIABLES
  last,        \* the operation performed last
  token,       \* the text Note::from_str was last given
  note,        \* the Note last constructed by the caller
  noteResult,  \* what Note::from_str returned for token
  doc,         \* the document text
  nlines,      \* the number of lines put into doc
  before,      \* what Scale::from_str returned for doc before the last edit
  res,         \* what Scale::from_str returned for doc
  scale,       \* the Scale last written
  written,     \* the text Scale's Display produced for scale
  reread       \* what Scale::from_str returned for written

noteVars == <<token, note, noteResult>>
scaleVars == <<doc, nlines, before, res, scale, written, reread>>
vars == <<last, token, note, noteResult, doc, nlines, before, res, scale, written, reread>>

Init ==
  /\ last = "init"
  /\ token = <<>>
  /\ note = None
  /\ noteResult = None
  /\ doc = <<>>
  /\ nlines = 0
  /\ before = None
  /\ res = None
  /\ scale = None
  /\ written = <<>>
  /\ reread = None

(***************************************************************************)
(* Notes: Note::from_str on a token, and the tests' write_then_read_note.  *)
(***************************************************************************)
ParseNote ==
  /\ last = "init"
  /\ \E t \in Tokens :
       /\ token' = t
       /\ noteResult' = NoteFromStr(t)
  /\ last' = "parse_note"
  /\ UNCHANGED <<note, scaleVars>>

WriteThenReadNote ==
  /\ last = "init"
  /\ \E n \in NoteValues :
       /\ note' = n
       /\ token' = NoteFmt(n)
       /\ noteResult' = NoteFromStr(NoteFmt(n))
  /\ last' = "write_then_read_note"
  /\ UNCHANGED scaleVars

(***************************************************************************)
(* Scales: a document is put together line by line and parsed; comment     *)
(* lines are inserted; a note line is decorated; the parsed Scale is       *)
(* written; a constructed Scale is written and read back.                  *)
(***************************************************************************)
\* the positions of doc at which a line starts
LineStarts(d) == {p \in 1..Len(d) : p = 1 \/ d[p - 1] = LF}

\* the position of the last character of the line starting at p
LineEnd(d, p) ==
  IF \E q \in p..Len(d) : d[q] = LF
  THEN (CHOOSE q \in p..Len(d) : d[q] = LF /\ \A r \in p..(q - 1) : d[r] # LF) - 1
  ELSE Len(d)

\* the line starting at p is parsed as a note and holds a token
IsNoteLineAt(d, p) ==
  /\ d[p] # "!"
  /\ Cardinality({q \in LineStarts(d) : q < p /\ d[q] # "!"}) >= 2
  /\ FirstToken(SubSeq(d, p, LineEnd(d, p))) # <<>>

\* the text d is empty or ends with a line terminator
AtLineStart(d) == IF d = <<>> THEN TRUE ELSE d[Len(d)] = LF

AppendLine ==
  /\ last \in {"init", "append"}
  /\ nlines < MaxLines
  /\ AtLineStart(doc)
  /\ \E l \in DocLines, terminated \in BOOLEAN :
       /\ l # <<>> \/ terminated
       /\ doc' = doc \o l \o (IF terminated THEN <<LF>> ELSE <<>>)
  /\ nlines' = nlines + 1
  /\ before' = res
  /\ res' = ScaleFromStr(doc')
  /\ last' = "append"
  /\ UNCHANGED <<noteVars, scale, written, reread>>

InsertComment ==
  /\ last \in {"append", "comment"}
  /\ nlines < MaxLines
  /\ \E c \in CommentLines, p \in LineStarts(doc) \cup {Len(doc) + 1} :
       doc' = IF p = Len(doc) + 1 /\ ~AtLineStart(doc)
              THEN doc \o <<LF>> \o c
              ELSE SubSeq(doc, 1, p - 1) \o c \o <<LF>> \o SubSeq(doc, p, Len(doc))
  /\ nlines' = nlines + 1
  /\ before' = res
  /\ res' = ScaleFromStr(doc')
  /\ last' = "comment"
  /\ UNCHANGED <<noteVars, scale, written, reread>>

DecorateNoteLine ==
  /\ last \in {"append", "comment"}
  /\ \E d \in Decorations, p \in LineStarts(doc) :
       /\ IsNoteLineAt(doc, p)
       /\ doc' = SubSeq(doc, 1, p - 1) \o d.lead \o SubSeq(doc, p, LineEnd(doc, p))
                   \o d.trail \o SubSeq(doc, LineEnd(doc, p) + 1, Len(doc))
  /\ before' = res
  /\ res' = ScaleFromStr(doc')
  /\ last' = "decorate"
  /\ UNCHANGED <<noteVars, nlines, scale, written, reread>>

WriteScale ==
  /\ last \in {"append", "comment", "decorate"}
  /\ res.kind = "Ok"
  /\ scale' = res.value
  /\ written' = ScaleFmt(res.value)
  /\ reread' = ScaleFromStr(ScaleFmt(res.value))
  /\ last' = "write"
  /\ UNCHANGED <<noteVars, doc, nlines, before, res>>

WriteThenReadScale ==
  /\ last = "init"
  /\ \E d \in Descriptions, n \in NoteLists :
       /\ scale' = MkScale(d, n)
       /\ written' = ScaleFmt(MkScale(d, n))
       /\ reread' = ScaleFromStr(ScaleFmt(MkScale(d, n)))
  /\ last' = "write_then_read"
  /\ UNCHANGED <<noteVars, doc, nlines, before, res>>

NextNote == ParseNote \/ WriteThenReadNote

Next == AppendLine \/ InsertComment \/ DecorateNoteLine \/ WriteScale \/ WriteThenReadScale

SpecNote == Init /\ [][NextNote]_vars

Spec == Init /\ [][Next]_vars

(***************************************************************************)
(* Properties.                                                             *)
(***************************************************************************)
ParsedNote == last \in {"parse_note", "write_then_read_note"}
ParsedDoc == last \in {"append", "comment", "decorate"}
Wrote == last \in {"write", "write_then_read"}

CentsError == Err("error parsing cent value")
RatioError == Err("error parsing ratio value")
CountMismatch == Err("number of notes doesn't match actual number of notes")

\* a Note the data model allows: any Cents, a Ratio of positive value
ValidNote(n) == n.tag = "Ratio" => n.numer > 0 /\ n.denom > 0

\* C1: every valid Note, written and read back, is the same Note again.
NoteRoundTrip ==
  (last = "write_then_read_note" /\ ValidNote(note)) => noteResult = Ok(note)

\* C1 fails on a Cents of whole value and on nothing else.
NoteRoundTripFractional ==
  (last = "write_then_read_note" /\ ValidNote(note)
     /\ (note.tag = "Cents" => note.exp > 0))
    => noteResult = Ok(note)

\* a description that is one line and does not begin with the comment marker
OneLineDescription(d) ==
  ~StartsWith(d, "!") /\ ~Contains(d, LF) /\ ~Contains(d, CR)

\* C2: every Scale of a one-line description and valid notes, written and read
\* back, is the same Scale again.
ScaleRoundTrip ==
  (last = "write_then_read" /\ OneLineDescription(scale.description)
     /\ \A i \in DOMAIN scale.notes : ValidNote(scale.notes[i]))
    => reread = Ok(scale)

\* C2 fails only where C1 does: on a scale holding a Cents of whole value.
ScaleRoundTripFractional ==
  (last = "write_then_read" /\ OneLineDescription(scale.description)
     /\ \A i \in DOMAIN scale.notes :
          ValidNote(scale.notes[i]) /\ (scale.notes[i].tag = "Cents" => scale.notes[i].exp > 0))
    => reread = Ok(scale)

\* the numerator and denominator texts of a token without '.'
NumerText(t) == SubSeq(t, 1, IndexOf(t, "/") - 1)
DenomText(t) == IF Contains(t, "/") THEN SubSeq(t, IndexOf(t, "/") + 1, Len(t)) ELSE <<"1">>
IsNatText(t) == t # <<>> /\ AllDigits(t)
IsZeroText(t) == IsNatText(t) /\ \A i \in DOMAIN t : t[i] = "0"

\* C3: a token without '.' is rejected with the ratio error when a component is
\* no non-negative integer, the denominator is zero or the value is not
\* positive; every Ratio returned is strictly positive.
RatioValidation ==
  (last = "parse_note" /\ ~Contains(token, "."))
    => /\ (\/ ~IsNatText(NumerText(token))
           \/ ~IsNatText(DenomText(token))
           \/ IsZeroText(DenomText(token))
           \/ IsZeroText(NumerText(token))) => noteResult = RatioError
       /\ noteResult.kind = "Ok" => noteResult.value.numer > 0

\* C3 without the positivity of the value: what the code does enforce.
RatioValidationNonNegative ==
  (last = "parse_note" /\ ~Contains(token, "."))
    => /\ (\/ ~IsNatText(NumerText(token))
           \/ ~IsNatText(DenomText(token))
           \/ IsZeroText(DenomText(token))) => noteResult = RatioError
       /\ noteResult.kind = "Ok" => noteResult.value.numer >= 0 /\ noteResult.value.denom > 0

\* the lines of doc that are no comments, and what they declare
Surviving == LinesWithoutComments(doc)
Declared == ParseUnsigned(Trim(Surviving[2]), UsizeMax)
NoteLineOk(line) ==
  FirstToken(Trim(line)) # <<>> /\ NoteFromStr(FirstToken(Trim(line))).kind = "Ok"
AllNoteLinesOk == \A i \in 3..Len(Surviving) : NoteLineOk(Surviving[i])

\* C4: a Scale is returned only with as many notes as declared; when all note
\* lines parse and their number differs from the declared count the parse
\* fails with the count mismatch; count 0 without note lines is the empty scale.
CountInvariant ==
  ParsedDoc =>
    /\ res.kind = "Ok" =>
         /\ Len(Surviving) >= 2
         /\ Declared.kind = "Ok"
         /\ Len(res.value.notes) = Len(Surviving) - 2
         /\ NatToDigits(Len(res.value.notes)) = Declared.value
    /\ (Len(Surviving) >= 2 /\ Declared.kind = "Ok" /\ AllNoteLinesOk
          /\ NatToDigits(Len(Surviving) - 2) # Declared.value) => res = CountMismatch
    /\ (Len(Surviving) = 2 /\ Declared.kind = "Ok" /\ Declared.value = <<"0">>)
         => res = Ok(MkScale(Surviving[1], <<>>))

\* C4 for the declared counts a Vec can be allocated for.
CountInvariantAllocatable ==
  (ParsedDoc /\ res.kind # "Panic") => CountInvariant

\* C5: comment lines inserted into a document that parses to a Scale leave
\* the parsed Scale as it was.
CommentTransparency ==
  (last = "comment" /\ before.kind = "Ok") => res = before

\* a comment line put between the count line and the note line of a document
\* that parses
CommentTransparencyWitness ==
  /\ last = "comment"
  /\ before.kind = "Ok"
  /\ res.kind = "Ok"
  /\ Len(res.value.notes) = 1
  /\ \E i \in 3..(Len(Lines(doc)) - 1) :
       /\ IsComment(Lines(doc)[i])
       /\ ~IsComment(Lines(doc)[i - 1])
       /\ NoteLineOk(Lines(doc)[i + 1])

CountOf(s, c) == Cardinality({i \in DOMAIN s : s[i] = c})

X0Doc == <<"x", LF, "0", LF>>

\* C6: every line of the written text ends with a newline, the last included;
\* the Scale parsed from "x\n0\n" is written as "x\n0\n".
NewlineTerminated ==
  Wrote =>
    /\ written[Len(written)] = LF
    /\ (last = "write" /\ doc = X0Doc) => written = X0Doc

\* C6 as amended: the lines of the written text are separated by newlines and
\* the text does not end with one; the Scale parsed from "x\n0\n" is written
\* as "x\n0".
NewlineSeparated ==
  Wrote =>
    /\ written # <<>>
    /\ written[Len(written)] # LF
    /\ CountOf(written, LF) = CountOf(scale.description, LF) + 1 + Len(scale.notes)
    /\ (last = "write" /\ doc = X0Doc) => written = <<"x", LF, "0">>

NewlineSeparatedWitness ==
  last = "write" /\ doc = X0Doc /\ written = <<"x", LF, "0">>

\* the written text after the description and its newline
AfterDescription == SubSeq(written, Len(scale.description) + 2, Len(written))

\* C7: the written text is the description, then the decimal count of the
\* notes, then each note in order, one per line and nothing else; a Ratio is
\* written numerator/denominator, the denominator 1 included.
FormatLayout ==
  Wrote =>
    LET ls == SplitTerminator(AfterDescription)
    IN /\ SubSeq(written, 1, Len(scale.description)) = scale.description
       /\ written[Len(scale.description) + 1] = LF
       /\ Len(ls) = 1 + Len(scale.notes)
       /\ IsNatText(ls[1]) /\ DigitsToNat(ls[1]) = Len(scale.notes)
       /\ \A i \in DOMAIN scale.notes :
            /\ ~IsComment(ls[i + 1])
            /\ scale.notes[i].tag = "Cents" => ls[i + 1] = F64Fmt(scale.notes[i])
            /\ scale.notes[i].tag = "Ratio" =>
                 /\ CountOf(ls[i + 1], "/") = 1
                 /\ IsNatText(NumerText(ls[i + 1])) /\ IsNatText(DenomText(ls[i + 1]))
                 /\ DigitsToNat(NumerText(ls[i + 1])) = scale.notes[i].numer
                 /\ DigitsToNat(DenomText(ls[i + 1])) = scale.notes[i].denom

\* a scale of a Cents and a whole Ratio, written
FormatLayoutWitness ==
  /\ last = "write_then_read"
  /\ scale = MkScale(<<"x">>, <<Cents(5, 1), RatioNew(2, 1)>>)
  /\ written = <<"x", LF, "2", LF, "0", ".", "5", LF, "2", "/", "1">>

TrailingContentTolerance == last = "decorate" => res = before

\* a decorated note line in a document that parses
TrailingContentWitness ==
  /\ last = "decorate"
  /\ res.kind = "Ok"
  /\ res.value.notes = <<RatioNew(5, 4)>>
  /\ Contains(doc, "x") /\ Contains(doc, SP)

\* the result the stages give when checked in the order of C10
RECURSIVE FirstNoteFailure(_, _)
FirstNoteFailure(lines, i) ==
  IF i > Len(lines) THEN None
  ELSE IF FirstToken(Trim(lines[i])) = <<>> THEN Err("no note on line")
  ELSE IF NoteFromStr(FirstToken(Trim(lines[i]))).kind # "Ok"
  THEN NoteFromStr(FirstToken(Trim(lines[i])))
  ELSE FirstNoteFailure(lines, i + 1)

StagedFailure ==
  IF Len(Surviving) = 0 THEN Err("couldn't read description line")
  ELSE IF Len(Surviving) = 1 THEN Err("couldn't read number of notes line")
  ELSE IF ~IsNatText(Trim(Surviving[2])) THEN Err("invalid number of notes")
  ELSE IF FirstNoteFailure(Surviving, 3) # None THEN FirstNoteFailure(Surviving, 3)
  ELSE IF StripZeros(Trim(Surviving[2])) # NatToDigits(Len(Surviving) - 2) THEN CountMismatch
  ELSE None

\* C10: a parse fails with the error of the first failing stage: description,
\* count present, count valid, each note line in order, count mismatch last;
\* "x\n1\n" fails.
ErrorPrecedence ==
  ParsedDoc =>
    /\ StagedFailure # None => res = StagedFailure
    /\ StagedFailure = None => res.kind = "Ok"
    /\ doc = <<"x", LF, "1", LF>> => res.kind = "Err"

\* C10 for the declared counts a Vec can be allocated for.
ErrorPrecedenceAllocatable ==
  (ParsedDoc /\ res.kind # "Panic") => ErrorPrecedence

====
